---------------------------- MODULE Spec2Model ----------------------------
(***************************************************************************)
(* A model of git-clean (coriolinus/git-clean): clean_branches and the     *)
(* helpers it calls, from src/src/lib.rs.                                  *)
(*                                                                         *)
(* Text is modelled as a sequence of one-character strings, so that the    *)
(* code's string operations (eq_ignore_ascii_case, the two regular         *)
(* expressions of parse_git_url) are computed rather than assumed.         *)
(***************************************************************************)
EXTENDS Integers, Sequences, FiniteSets, TLC

(***************************************************************************)
(* Bounds of the model.                                                    *)
(***************************************************************************)
\* longest list of pull requests handed to should_delete_branch in SpecClassify
MaxLen == 3
\* most pull requests the service holds for one search query
MaxPRs == 2
\* most items the service puts on one page of an answer
ServicePageCap == 1
\* most remotes the repository is configured with
MaxRemotes == 2
\* most branches another process deletes while the run is in progress
MaxExternal == 1
\* longest owner or repository segment of a URL handed to parse_git_url in SpecParse
MaxSeg == 2

\* lib.rs:53, `limit.into().unwrap_or(100)`: the per_page value of get_prs
DefaultLimit == 100

None == "None"

Min(a, b) == IF a < b THEN a ELSE b

(***************************************************************************)
(* str::eq_ignore_ascii_case, as used at lib.rs:215.                       *)
(***************************************************************************)
UpperAscii == <<"A","B","C","D","E","F","G","H","I","J","K","L","M",
                "N","O","P","Q","R","S","T","U","V","W","X","Y","Z">>
LowerAscii == <<"a","b","c","d","e","f","g","h","i","j","k","l","m",
                "n","o","p","q","r","s","t","u","v","w","x","y","z">>

ToAsciiLowercase(c) ==
    IF \E i \in 1..Len(UpperAscii) : UpperAscii[i] = c
    THEN LowerAscii[CHOOSE i \in 1..Len(UpperAscii) : UpperAscii[i] = c]
    ELSE c

EqIgnoreAsciiCase(a, b) ==
    /\ Len(a) = Len(b)
    /\ \A i \in 1..Len(a) : ToAsciiLowercase(a[i]) = ToAsciiLowercase(b[i])

\* the literal "closed" of lib.rs:215
ClosedLit == <<"c","l","o","s","e","d">>

(***************************************************************************)
(* should_delete_branch (lib.rs:204-223) over the `state` fields of the    *)
(* issues it is given: a sequence of state strings.                        *)
(***************************************************************************)
ShouldDeleteBranchAnyClosed(states) ==
    \E i \in 1..Len(states) : EqIgnoreAsciiCase(states[i], ClosedLit)

ShouldDeleteBranch(states) ==
    IF Len(states) = 0
    THEN FALSE
    ELSE IF \E i \in 1..Len(states) : ~EqIgnoreAsciiCase(states[i], ClosedLit)
         THEN FALSE
         ELSE TRUE

(***************************************************************************)
(* parse_git_url (lib.rs:17-30).  Both patterns are anchored, org and repo *)
(* are \w+ and the dot before "git" is an unescaped `.`: any character     *)
(* but a line feed.                                                        *)
(***************************************************************************)
WordChars ==
    {UpperAscii[i] : i \in 1..Len(UpperAscii)} \cup
    {LowerAscii[i] : i \in 1..Len(LowerAscii)} \cup
    {"0","1","2","3","4","5","6","7","8","9","_"}

IsWord(s) == Len(s) > 0 /\ \A i \in 1..Len(s) : s[i] \in WordChars

SshPrefix == <<"g","i","t","@","g","i","t","h","u","b",".","c","o","m",":">>
HttpPrefix == <<"h","t","t","p","s",":","/","/","g","i","t","h","u","b",".","c","o","m","/">>
GitLit == <<"g","i","t">>

\* the prefixes as patterns: their own `.` matches any character but "\n"
PrefixMatches(prefix, url) ==
    /\ Len(url) >= Len(prefix)
    /\ \A i \in 1..Len(prefix) :
          IF prefix[i] = "." THEN url[i] # "\n" ELSE url[i] = prefix[i]

NoMatch == [ok |-> FALSE, org |-> <<>>, repo |-> <<>>]

\* the captures of ^<prefix>(\w+)/(\w+).git$ on url, or NoMatch
Captures(prefix, url) ==
    LET n == Len(url)
        p == Len(prefix)
        slashes == {k \in (p + 2)..(n - 5) :
                       /\ url[k] = "/"
                       /\ IsWord(SubSeq(url, p + 1, k - 1))
                       /\ IsWord(SubSeq(url, k + 1, n - 4))}
    IN  IF /\ PrefixMatches(prefix, url)
           /\ n >= p + 7
           /\ SubSeq(url, n - 2, n) = GitLit
           /\ url[n - 3] # "\n"
           /\ slashes # {}
        THEN LET k == CHOOSE k \in slashes : TRUE
             IN  [ok |-> TRUE, org |-> SubSeq(url, p + 1, k - 1),
                  repo |-> SubSeq(url, k + 1, n - 4)]
        ELSE NoMatch

ParseGitUrl(url) ==
    IF Captures(SshPrefix, url).ok
    THEN Captures(SshPrefix, url)
    ELSE Captures(HttpPrefix, url)

(***************************************************************************)
(* The world clean_branches runs in.                                       *)
(***************************************************************************)
\* the local branches whose names are UTF-8
Names == {"main", "feat"}
\* a local branch whose name is not UTF-8: Branch::name() gives Ok(None)
RawBranch == "raw"
AllBranches == Names \cup {RawBranch}

\* a branch that another process creates while the run is in progress
LateBranch == "late"
\* every name a task could be spawned for
TaskIds == Names \cup {LateBranch}

\* lib.rs:132, branch.name().ok().flatten()
BranchName(x) == IF x = RawBranch THEN None ELSE x

\* a branch name of the remote repository that only starts with b
Longer(b) == IF b = "main" THEN "main-v2" ELSE "feat-2"

StClosedMixed == <<"C","l","o","s","e","d">>
StOpen == <<"o","p","e","n">>

\* The pull requests the service's search may answer `head:b` with.  `head`
\* is the source branch the service knows for the request; the Issue the
\* code receives does not carry it.
PRsFor(b) ==
    {[head |-> b, state |-> StClosedMixed],
     [head |-> b, state |-> StOpen],
     [head |-> Longer(b), state |-> ClosedLit]}

RECURSIVE SeqsUpTo(_, _)
SeqsUpTo(S, n) ==
    IF n = 0 THEN {<<>>}
    ELSE LET shorter == SeqsUpTo(S, n - 1)
         IN  shorter \cup {Append(q, x) : q \in {r \in shorter : Len(r) = n - 1}, x \in S}

ServiceAnswers == [b \in Names |-> SeqsUpTo(PRsFor(b), MaxPRs)]

\* the service's answer to `head:late`: one closed request of that branch
LateAnswer == <<[head |-> LateBranch, state |-> ClosedLit]>>

\* the remote URLs the repository may be configured with
UrlSsh == SshPrefix \o <<"o","w","/","r","_","1",".","g","i","t">>
UrlHttps == HttpPrefix \o <<"o","w","/","r","_","1",".","g","i","t">>
UrlNoSuffix == SshPrefix \o <<"o","w","/","r","_","1">>
UrlHyphen == HttpPrefix \o <<"o","-","w","/","r","_","1",".","g","i","t">>
UrlOtherHost == <<"g","i","t","@","g","i","t","l","a","b",".","c","o","m",":",
                  "o","w","/","r","_","1",".","g","i","t">>
RemoteUrls == {UrlSsh, UrlHttps, UrlNoSuffix, UrlHyphen, UrlOtherHost}

\* remote.url(): None when the URL is not UTF-8
NoUrl == [read |-> FALSE, utf8 |-> FALSE, text |-> <<>>]

VARIABLES
    dry_run,               \* the dry_run argument
    pc,                    \* where clean_branches is
    result,                \* what clean_branches returned, once it has
    remotes_len,           \* remotes.len() of lib.rs:108, -1 before it is read
    remote_url,            \* remote.url() of lib.rs:117, once it is read
    owner, repo_name,      \* lib.rs:117-120
    maybe_default_branch,  \* lib.rs:122
    repoBranches,          \* the local branches of the repository
    iter,                  \* what the branch iterator of lib.rs:128 has yet to yield
    svc,                   \* per name, the service's answer to `head:<name>`
    tpc,                   \* per name, where its spawned task is
    tpages,                \* per name, how many pages its task has fetched
    treq,                  \* per name, how many page requests its task has sent
    tclassified,           \* per name, how many issues it gave should_delete_branch, -1 if none
    tout,                  \* per name, what its task returned
    applied,               \* per name, what the loop of lib.rs:174 did with its handle
    extDeleted,            \* branches another process deleted during the run
    log,                   \* the records written to the logger
    cl_states, cl_done, cl_verdict,  \* SpecClassify: input, applied?, output
    pu_in, pu_done, pu_out,          \* SpecParse: input, applied?, output
    run_no,                \* SpecTwice: 1 in the first run, 2 in the one after it
    prev                   \* SpecTwice: what the first run decided

vars == <<dry_run, pc, result, remotes_len, remote_url, owner, repo_name,
          maybe_default_branch, repoBranches, iter, svc, tpc, tpages, treq,
          tclassified, tout, applied, extDeleted, log,
          cl_states, cl_done, cl_verdict, pu_in, pu_done, pu_out, run_no, prev>>

\* the variables clean_branches itself never touches
puVars == <<pu_in, pu_done, pu_out>>
twiceVars == <<run_no, prev>>
clVars == <<cl_states, cl_done, cl_verdict, puVars, twiceVars>>
runVars == <<dry_run, pc, result, remotes_len, remote_url, owner, repo_name,
             maybe_default_branch, repoBranches, iter, svc, tpc, tpages, treq,
             tclassified, tout, applied, extDeleted, log>>
taskVars == <<tpc, tpages, treq, tclassified, tout>>
setupVars == <<remotes_len, remote_url, owner, repo_name, maybe_default_branch>>

(***************************************************************************)
(* The service's pages: get_pr_page asks for DefaultLimit items a page and *)
(* the service puts at most ServicePageCap on one.                         *)
(***************************************************************************)
PageSize == Min(DefaultLimit, ServicePageCap)

NumPages(b) ==
    IF Len(svc[b]) = 0 THEN 1 ELSE (Len(svc[b]) + PageSize - 1) \div PageSize

\* the items of the first n pages
FirstPages(b, n) == SubSeq(svc[b], 1, Min(n * PageSize, Len(svc[b])))

StatesOf(prs) == [i \in 1..Len(prs) |-> prs[i].state]

Spawned == {b \in TaskIds : tpc[b] # "unspawned"}
Running == {b \in TaskIds : tpc[b] \in {"start", "fetch"}}
Collected == {b \in TaskIds : applied[b] # "NotCollected"}
Deleted == {b \in TaskIds : applied[b] = "Deleted"}

\* lib.rs:143-147
IsDefaultNever(b) == FALSE

\* `unwrap_or(true)` in place of unwrap_or_default()
IsDefaultWhenNone(b) == maybe_default_branch = None \/ maybe_default_branch = b

IsDefault(b) == maybe_default_branch # None /\ maybe_default_branch = b

Fail(e) == pc' = "done" /\ result' = e

\* clean_branches is entered: nothing read, nothing spawned
RunStart ==
    /\ pc = "build"
    /\ result = "Running"
    /\ remotes_len = -1
    /\ remote_url = NoUrl
    /\ owner = <<>>
    /\ repo_name = <<>>
    /\ maybe_default_branch = None
    /\ repoBranches = AllBranches
    /\ iter = {}
    /\ tpc = [b \in TaskIds |-> "unspawned"]
    /\ tpages = [b \in TaskIds |-> 0]
    /\ treq = [b \in TaskIds |-> 0]
    /\ tclassified = [b \in TaskIds |-> -1]
    /\ tout = [b \in TaskIds |-> "Pending"]
    /\ applied = [b \in TaskIds |-> "NotCollected"]
    /\ extDeleted = {}
    /\ log = {}

\* the service holds some answer for each local name
ServiceInit ==
    \E s \in [Names -> UNION {ServiceAnswers[b] : b \in Names}] :
        /\ \A b \in Names : s[b] \in ServiceAnswers[b]
        /\ svc = [b \in TaskIds |-> IF b \in Names THEN s[b] ELSE LateAnswer]

RunInit ==
    /\ dry_run \in BOOLEAN
    /\ ServiceInit
    /\ RunStart

ClIdle == cl_states = <<>> /\ cl_done = FALSE /\ cl_verdict = FALSE

NoInput == [prefix |-> <<>>, org |-> <<>>, sep |-> <<>>, repo |-> <<>>, suffix |-> <<>>]

PuIdle == pu_in = NoInput /\ pu_done = FALSE /\ pu_out = NoMatch

NoPrev == [default |-> None, out |-> [b \in Names |-> "NoRun"]]

TwiceIdle == run_no = 1 /\ prev = NoPrev

Init == RunInit /\ ClIdle /\ PuIdle /\ TwiceIdle

(***************************************************************************)
(* clean_branches up to the spawning of the tasks (lib.rs:98-122).  Every  *)
(* `?` and every early `return Err` is a Fail.                             *)
(***************************************************************************)
\* lib.rs:98-104
BuildOctocrab ==
    /\ pc = "build"
    /\ \E ok \in BOOLEAN :
          IF ok THEN pc' = "open" /\ UNCHANGED result
                ELSE Fail("Github: build octocrab instance")
    /\ UNCHANGED <<dry_run, setupVars, repoBranches, iter, svc, taskVars,
                   applied, extDeleted, log, clVars>>

\* lib.rs:106
OpenRepo ==
    /\ pc = "open"
    /\ \E ok \in BOOLEAN :
          IF ok THEN pc' = "remotes" /\ UNCHANGED result
                ELSE Fail("Git: open repo from path")
    /\ UNCHANGED <<dry_run, setupVars, repoBranches, iter, svc, taskVars,
                   applied, extDeleted, log, clVars>>

\* lib.rs:108
RemoteCountZero(n) == n = 0

RemoteCountWrong(n) == n # 1

\* lib.rs:107-115
GetRemote ==
    /\ pc = "remotes"
    /\ \E listOk \in BOOLEAN, n \in 0..MaxRemotes, nameUtf8 \in BOOLEAN, findOk \in BOOLEAN :
          IF ~listOk
          THEN Fail("Git: list remotes") /\ UNCHANGED <<remotes_len, log>>
          ELSE /\ remotes_len' = n
               /\ IF RemoteCountWrong(n) THEN Fail("WrongRemoteCount") /\ UNCHANGED log
                  ELSE IF ~nameUtf8 THEN Fail("InexpressableRemote") /\ UNCHANGED log
                  ELSE IF ~findOk THEN Fail("Git: get remote by name") /\ UNCHANGED log
                  ELSE /\ pc' = "url"
                       /\ log' = log \cup {<<"trace", "got remote", None>>}
                       /\ UNCHANGED result
    /\ UNCHANGED <<dry_run, remote_url, owner, repo_name, maybe_default_branch,
                   repoBranches, iter, svc, taskVars, applied, extDeleted, clVars>>

\* lib.rs:117-120
ParseRemoteUrl ==
    /\ pc = "url"
    /\ \E utf8 \in BOOLEAN, url \in RemoteUrls :
          /\ remote_url' = [read |-> TRUE, utf8 |-> utf8,
                            text |-> IF utf8 THEN url ELSE <<>>]
          /\ IF ~utf8
             THEN Fail("RemoteUrlNotUtf8") /\ UNCHANGED <<owner, repo_name, log>>
             ELSE IF ~ParseGitUrl(url).ok
             THEN Fail("RemoteUrlNotGithub") /\ UNCHANGED <<owner, repo_name, log>>
             ELSE /\ owner' = ParseGitUrl(url).org
                  /\ repo_name' = ParseGitUrl(url).repo
                  /\ log' = log \cup {<<"trace", "parsed url", None>>}
                  /\ pc' = "default"
                  /\ UNCHANGED result
    /\ UNCHANGED <<dry_run, remotes_len, maybe_default_branch, repoBranches, iter,
                   svc, taskVars, applied, extDeleted, clVars>>

\* what the lookup of lib.rs:32-43 may give: nothing (the request failed, or
\* the repository reports no default branch), or a name
DefaultAnswers == {None, "main"}

\* lib.rs:122
GetDefaultBranch ==
    /\ pc = "default"
    /\ \E d \in DefaultAnswers : maybe_default_branch' = d
    /\ pc' = "branches"
    /\ UNCHANGED <<dry_run, result, remotes_len, remote_url, owner, repo_name,
                   repoBranches, iter, svc, taskVars, applied, extDeleted, log,
                   clVars>>

(***************************************************************************)
(* lib.rs:128-170: the lazy chain over repo.branches(..), driven by        *)
(* collect().  Each item yielded is one Spawn step; tokio::spawn starts    *)
(* the task at once, so tasks run while later ones are still being         *)
(* spawned.                                                                *)
(***************************************************************************)
\* lib.rs:128-130
ListBranches ==
    /\ pc = "branches"
    /\ \E ok \in BOOLEAN :
          IF ok
          THEN /\ iter' = repoBranches
               /\ pc' = IF repoBranches = {} THEN "collect" ELSE "spawn"
               /\ UNCHANGED result
          ELSE Fail("Git: list local branches") /\ UNCHANGED iter
    /\ UNCHANGED <<dry_run, setupVars, repoBranches, svc, taskVars, applied,
                   extDeleted, log, clVars>>

\* the iterator reads the repository at every item instead of the snapshot
SpawnLive(x) ==
    /\ pc = "spawn"
    /\ x \in iter \cup {y \in repoBranches \cap TaskIds : tpc[y] = "unspawned"}
    /\ iter' = iter \ {x}
    /\ pc' = IF iter' = {} THEN "collect" ELSE "spawn"
    /\ IF BranchName(x) = None
       THEN UNCHANGED tpc
       ELSE tpc' = [tpc EXCEPT ![x] = "start"]
    /\ UNCHANGED <<dry_run, result, setupVars, repoBranches, svc, tpages, treq,
                   tclassified, tout, applied, extDeleted, log, clVars>>

\* lib.rs:131-169, for one item of the iterator
Spawn(x) ==
    /\ pc = "spawn"
    /\ x \in iter
    /\ iter' = iter \ {x}
    /\ pc' = IF iter' = {} THEN "collect" ELSE "spawn"
    /\ IF BranchName(x) = None
       THEN UNCHANGED tpc
       ELSE tpc' = [tpc EXCEPT ![x] = "start"]
    /\ UNCHANGED <<dry_run, result, setupVars, repoBranches, svc, tpages, treq,
                   tclassified, tout, applied, extDeleted, log, clVars>>

(***************************************************************************)
(* The spawned task (lib.rs:142-168).                                      *)
(***************************************************************************)
\* lib.rs:143-154
TaskSkipDefault(b) ==
    /\ tpc[b] = "start"
    /\ IsDefault(b)
    /\ tpc' = [tpc EXCEPT ![b] = "done"]
    /\ tout' = [tout EXCEPT ![b] = "None"]
    /\ log' = log \cup {<<"debug", "skipping default branch", b>>}
    /\ UNCHANGED <<dry_run, pc, result, setupVars, repoBranches, iter, svc,
                   tpages, treq, tclassified, applied, extDeleted, clVars>>

\* lib.rs:167 with the log records of lib.rs:217 and 220: the task hands prs
\* to should_delete_branch and returns
TaskClassify(b, prs) ==
    LET del == ShouldDeleteBranch(StatesOf(prs))
    IN  /\ tpc' = [tpc EXCEPT ![b] = "done"]
        /\ tclassified' = [tclassified EXCEPT ![b] = Len(prs)]
        /\ tout' = [tout EXCEPT ![b] = IF del THEN "Some" ELSE "None"]
        /\ log' = log \cup
             (IF Len(prs) = 0 THEN {}
              ELSE IF del THEN {<<"info", "deleting branch", b>>}
              ELSE {<<"debug", "retaining branch", b>>})

\* the task classifies what the first page holds
TaskFetchOkEarly(b) ==
    /\ tpc[b] \in {"start", "fetch"}
    /\ ~IsDefault(b)
    /\ tpages[b] < NumPages(b)
    /\ treq' = [treq EXCEPT ![b] = @ + 1]
    /\ tpages' = [tpages EXCEPT ![b] = @ + 1]
    /\ TaskClassify(b, FirstPages(b, tpages'[b]))
    /\ UNCHANGED <<dry_run, pc, result, setupVars, repoBranches, iter, svc,
                   applied, extDeleted, clVars>>

\* the task deletes its branch itself once it has classified it
TaskFetchOkDeletes(b) ==
    /\ tpc[b] \in {"start", "fetch"}
    /\ ~IsDefault(b)
    /\ tpages[b] < NumPages(b)
    /\ treq' = [treq EXCEPT ![b] = @ + 1]
    /\ tpages' = [tpages EXCEPT ![b] = @ + 1]
    /\ IF tpages'[b] < NumPages(b)
       THEN /\ tpc' = [tpc EXCEPT ![b] = "fetch"]
            /\ UNCHANGED <<tclassified, tout, log, repoBranches>>
       ELSE /\ TaskClassify(b, FirstPages(b, tpages'[b]))
            /\ repoBranches' = IF tout'[b] = "Some" /\ ~dry_run
                               THEN repoBranches \ {b} ELSE repoBranches
    /\ UNCHANGED <<dry_run, pc, result, setupVars, iter, svc,
                   applied, extDeleted, clVars>>

\* lib.rs:156-157 and 167 with get_prs (lib.rs:66-77): a page request is
\* sent and its page arrives; after the last page the task classifies
TaskFetchOk(b) ==
    /\ tpc[b] \in {"start", "fetch"}
    /\ ~IsDefault(b)
    /\ tpages[b] < NumPages(b)
    /\ treq' = [treq EXCEPT ![b] = @ + 1]
    /\ tpages' = [tpages EXCEPT ![b] = @ + 1]
    /\ IF tpages'[b] < NumPages(b)
       THEN /\ tpc' = [tpc EXCEPT ![b] = "fetch"]
            /\ UNCHANGED <<tclassified, tout, log>>
       ELSE TaskClassify(b, FirstPages(b, tpages'[b]))
    /\ UNCHANGED <<dry_run, pc, result, setupVars, repoBranches, iter, svc,
                   applied, extDeleted, clVars>>

\* the run is over with a fatal error raised by a task
TaskFetchErrAborts(b) ==
    /\ tpc[b] \in {"start", "fetch"}
    /\ ~IsDefault(b)
    /\ tpages[b] < NumPages(b)
    /\ treq' = [treq EXCEPT ![b] = @ + 1]
    /\ tpc' = [tpc EXCEPT ![b] = "done"]
    /\ tout' = [tout EXCEPT ![b] = "None"]
    /\ pc' = "done"
    /\ result' = "Github: search for pull requests by branch"
    /\ UNCHANGED <<dry_run, setupVars, repoBranches, iter, svc, tpages,
                   tclassified, applied, extDeleted, log, clVars>>

\* the pages that did arrive are classified
TaskFetchErrPartial(b) ==
    /\ tpc[b] \in {"start", "fetch"}
    /\ ~IsDefault(b)
    /\ tpages[b] < NumPages(b)
    /\ treq' = [treq EXCEPT ![b] = @ + 1]
    /\ TaskClassify(b, FirstPages(b, tpages[b]))
    /\ UNCHANGED <<dry_run, pc, result, setupVars, repoBranches, iter, svc,
                   tpages, applied, extDeleted, clVars>>

\* lib.rs:158-164 with the `?` of lib.rs:73 and the Err of all_pages: the
\* request for the next page fails
TaskFetchErr(b) ==
    /\ tpc[b] \in {"start", "fetch"}
    /\ ~IsDefault(b)
    /\ tpages[b] < NumPages(b)
    /\ treq' = [treq EXCEPT ![b] = @ + 1]
    /\ tpc' = [tpc EXCEPT ![b] = "done"]
    /\ tout' = [tout EXCEPT ![b] = "None"]
    /\ log' = log \cup {<<"error", "failed to get prs for branch", b>>}
    /\ UNCHANGED <<dry_run, pc, result, setupVars, repoBranches, iter, svc,
                   tpages, tclassified, applied, extDeleted, clVars>>

\* the task panics or is cancelled: its JoinHandle resolves to Err (lib.rs:177)
TaskPanic(b) ==
    /\ tpc[b] \in {"start", "fetch"}
    /\ tpc' = [tpc EXCEPT ![b] = "panicked"]
    /\ UNCHANGED <<dry_run, pc, result, setupVars, repoBranches, iter, svc,
                   tpages, treq, tclassified, tout, applied, extDeleted, log,
                   clVars>>

(***************************************************************************)
(* lib.rs:174-199: one turn of the loop, for the handle of b that          *)
(* join_handles.next() yields.  A turn has no await inside.                *)
(***************************************************************************)
\* lib.rs:174: next() yields the handle of a task that has ended
HandleReadyAlways(b) == TRUE

\* the handle of a task that panicked is never yielded
HandleReadyDoneOnly(b) == tpc[b] = "done"

HandleReady(b) == tpc[b] \in {"done", "panicked"}

\* lib.rs:189
DeleteAllowedAlways == TRUE

DeleteAllowed == ~dry_run

\* the loop is left at the first handle that is an Err
CollectJoinErrorBreaks(b) ==
    /\ tpc[b] = "panicked"
    /\ applied' = [applied EXCEPT ![b] = "JoinError"]
    /\ log' = log \cup {<<"warn", "task did not complete successfully", None>>}
    /\ pc' = "done"
    /\ result' = "Ok"
    /\ UNCHANGED repoBranches

\* lib.rs:177-184: the record does not name the branch
CollectJoinError(b) ==
    /\ tpc[b] = "panicked"
    /\ applied' = [applied EXCEPT ![b] = "JoinError"]
    /\ log' = log \cup {<<"warn", "task did not complete successfully", None>>}
    /\ UNCHANGED <<pc, result, repoBranches>>

\* lib.rs:176 and 187 with None
CollectNone(b) ==
    /\ tpc[b] # "panicked"
    /\ tout[b] = "None"
    /\ applied' = [applied EXCEPT ![b] = "Nothing"]
    /\ UNCHANGED <<pc, result, repoBranches, log>>

\* lib.rs:187-198 with Some(branch_name)
CollectSome(b) ==
    /\ tpc[b] # "panicked"
    /\ tout[b] # "None"
    /\ IF b \notin repoBranches
       THEN /\ applied' = [applied EXCEPT ![b] = "NotFound"]
            /\ UNCHANGED <<repoBranches, log>>
       ELSE IF ~DeleteAllowed
       THEN /\ applied' = [applied EXCEPT ![b] = "DryRun"]
            /\ UNCHANGED <<repoBranches, log>>
       ELSE \E ok \in BOOLEAN :
               IF ok
               THEN /\ applied' = [applied EXCEPT ![b] = "Deleted"]
                    /\ repoBranches' = repoBranches \ {b}
                    /\ UNCHANGED log
               ELSE /\ applied' = [applied EXCEPT ![b] = "Rejected"]
                    /\ log' = log \cup {<<"error", "failed to delete branch", b>>}
                    /\ UNCHANGED repoBranches
    /\ UNCHANGED <<pc, result>>

Collect(b) ==
    /\ pc = "collect"
    /\ HandleReady(b)
    /\ applied[b] = "NotCollected"
    /\ \/ CollectJoinError(b)
       \/ CollectNone(b)
       \/ CollectSome(b)
    /\ UNCHANGED <<dry_run, setupVars, iter, svc, taskVars, extDeleted, clVars>>

\* the loop is left after the first handle
ReturnOkEarly ==
    /\ pc = "collect"
    /\ Spawned = {} \/ Spawned \cap Collected # {}
    /\ pc' = "done"
    /\ result' = "Ok"
    /\ UNCHANGED <<dry_run, setupVars, repoBranches, iter, svc, taskVars,
                   applied, extDeleted, log, clVars>>

\* lib.rs:174 and 201: next() yields nothing more, clean_branches returns Ok
ReturnOk ==
    /\ pc = "collect"
    /\ Spawned \subseteq Collected
    /\ pc' = "done"
    /\ result' = "Ok"
    /\ UNCHANGED <<dry_run, setupVars, repoBranches, iter, svc, taskVars,
                   applied, extDeleted, log, clVars>>

\* Another process deletes a local branch while the run is in progress.  The
\* run reads the repository again only in Collect, for a branch whose task
\* returned Some: deletions by others are modelled from that moment on.
ExternalDelete(b) ==
    /\ tpc[b] = "done"
    /\ tout[b] = "Some"
    /\ applied[b] = "NotCollected"
    /\ b \in repoBranches
    /\ Cardinality(extDeleted) < MaxExternal
    /\ repoBranches' = repoBranches \ {b}
    /\ extDeleted' = extDeleted \cup {b}
    /\ UNCHANGED <<dry_run, pc, result, setupVars, iter, svc, taskVars,
                   applied, log, clVars>>

Next ==
    \/ BuildOctocrab
    \/ OpenRepo
    \/ GetRemote
    \/ ParseRemoteUrl
    \/ GetDefaultBranch
    \/ ListBranches
    \/ \E x \in AllBranches \cup {LateBranch} : Spawn(x)
    \/ \E b \in TaskIds : TaskSkipDefault(b)
    \/ \E b \in TaskIds : TaskFetchOk(b)
    \/ \E b \in TaskIds : TaskFetchErr(b)
    \/ \E b \in TaskIds : TaskPanic(b)
    \/ \E b \in TaskIds : Collect(b)
    \/ ReturnOk
    \/ \E b \in TaskIds : ExternalDelete(b)

Spec == Init /\ [][Next]_vars

\* The tokio runtime keeps polling what can run (lib.rs:141, 174) and every
\* service call returns: a step that stays possible is taken.
\* Whether and when a run returns depends on the answers of the service only
\* through their number of pages and through Some or None: the answers here
\* are the closed requests of the branch itself, of every length.
FairInit ==
    /\ Init
    /\ \A b \in Names : \A i \in 1..Len(svc[b]) :
          svc[b][i] = [head |-> b, state |-> StClosedMixed]

FairSpec == FairInit /\ [][Next]_vars /\ WF_vars(Next)

\* Another process creates a local branch after the run has taken its
\* snapshot of the branches (lib.rs:128-170).
ExternalCreate ==
    /\ pc \in {"spawn", "collect"}
    /\ LateBranch \notin repoBranches
    /\ repoBranches' = repoBranches \cup {LateBranch}
    /\ UNCHANGED <<dry_run, pc, result, setupVars, iter, svc, taskVars,
                   applied, extDeleted, log, clVars>>

NextLate == Next \/ ExternalCreate

SpecLate == Init /\ [][NextLate]_vars

(***************************************************************************)
(* should_delete_branch alone, on lists of state strings.                  *)
(***************************************************************************)
StClosedUpper == <<"C","L","O","S","E","D">>
StClose == <<"c","l","o","s","e">>
StClosedSpace == <<"c","l","o","s","e","d"," ">>
StEmpty == <<>>
StateStrings == {ClosedLit, StClosedUpper, StClosedMixed, StOpen, StClose,
                 StClosedSpace, StEmpty}

ClInit ==
    /\ cl_states \in SeqsUpTo(StateStrings, MaxLen)
    /\ cl_done = FALSE
    /\ cl_verdict = FALSE
    /\ dry_run = TRUE
    /\ svc = [b \in TaskIds |-> <<>>]
    /\ RunStart
    /\ PuIdle
    /\ TwiceIdle

ClApply ==
    /\ ~cl_done
    /\ cl_done' = TRUE
    /\ cl_verdict' = ShouldDeleteBranch(cl_states)
    /\ UNCHANGED <<cl_states, runVars, puVars, twiceVars>>

ClNext == ClApply

SpecClassify == ClInit /\ [][ClNext]_vars

(***************************************************************************)
(* parse_git_url alone, on URLs put together from a prefix, an owner       *)
(* segment, a separator, a repository segment and a suffix.                *)
(***************************************************************************)
DotGit == <<".","g","i","t">>
PuPrefixes ==
    {SshPrefix, HttpPrefix,
     <<"g","i","t","@","g","i","t","h","u","b","x","c","o","m",":">>,
     <<"h","t","t","p",":","/","/","g","i","t","h","u","b",".","c","o","m","/">>}
PuSegments == SeqsUpTo({"a", "_", "-"}, MaxSeg)
PuSeparators == {<<"/">>, <<>>}
PuSuffixes == {DotGit, <<"x","g","i","t">>, <<"-","g","i","t">>, <<>>}

\* the text of the URL
PuUrl(in) == in.prefix \o in.org \o in.sep \o in.repo \o in.suffix

PuInit ==
    /\ pu_in \in [prefix : PuPrefixes, org : PuSegments, sep : PuSeparators,
                   repo : PuSegments, suffix : PuSuffixes]
    /\ pu_done = FALSE
    /\ pu_out = NoMatch
    /\ dry_run = TRUE
    /\ svc = [b \in TaskIds |-> <<>>]
    /\ RunStart
    /\ ClIdle
    /\ TwiceIdle

PuApply ==
    /\ ~pu_done
    /\ pu_done' = TRUE
    /\ pu_out' = ParseGitUrl(PuUrl(pu_in))
    /\ UNCHANGED <<pu_in, runVars, cl_states, cl_done, cl_verdict, twiceVars>>

PuNext == PuApply

SpecParse == PuInit /\ [][PuNext]_vars

(***************************************************************************)
(* clean_branches invoked a second time (lib.rs:92-97) on the repository   *)
(* and the service the first invocation left: a new process, so nothing of *)
(* the first run is kept but what it did to the repository.                *)
(***************************************************************************)
\* how the run ended for b: the value its task returned (lib.rs:142-168) or
\* the reason there is none
RunVerdict(b) ==
    IF tpc[b] = "panicked" THEN "Panicked"
    ELSE IF tpc[b] # "done" THEN "NoTask"
    ELSE IF treq[b] > tpages[b] THEN "FetchFailed"
    ELSE IF tout[b] = "Some" THEN "Delete"
    ELSE "Retain"

RunAgain ==
    /\ run_no = 1
    /\ pc = "done"
    /\ result = "Ok"
    /\ run_no' = 2
    /\ prev' = [default |-> maybe_default_branch,
                out |-> [b \in Names |-> RunVerdict(b)]]
    /\ pc' = "build"
    /\ result' = "Running"
    /\ remotes_len' = -1
    /\ remote_url' = NoUrl
    /\ owner' = <<>>
    /\ repo_name' = <<>>
    /\ maybe_default_branch' = None
    /\ iter' = {}
    /\ tpc' = [b \in TaskIds |-> "unspawned"]
    /\ tpages' = [b \in TaskIds |-> 0]
    /\ treq' = [b \in TaskIds |-> 0]
    /\ tclassified' = [b \in TaskIds |-> -1]
    /\ tout' = [b \in TaskIds |-> "Pending"]
    /\ applied' = [b \in TaskIds |-> "NotCollected"]
    /\ log' = {}
    /\ UNCHANGED <<dry_run, repoBranches, svc, extDeleted, cl_states, cl_done,
                   cl_verdict, puVars>>

InitTwice == Init /\ dry_run = TRUE

NextTwice == Next \/ RunAgain

SpecTwice == InitTwice /\ [][NextTwice]_vars

(***************************************************************************)
(* The claims.                                                             *)
(***************************************************************************)
\* every spelling of "closed" that differs from it only in the case of letters
ClosedSpellings ==
    {<<a, b, c, d, e, f>> : a \in {"c", "C"}, b \in {"l", "L"}, c \in {"o", "O"},
                           d \in {"s", "S"}, e \in {"e", "E"}, f \in {"d", "D"}}

FatalResults ==
    {"Github: build octocrab instance", "Git: open repo from path",
     "Git: list remotes", "WrongRemoteCount", "InexpressableRemote",
     "Git: get remote by name", "RemoteUrlNotUtf8", "RemoteUrlNotGithub",
     "Git: list local branches"}

\* the run called find_branch for b / called delete on it
Resolved(b) == applied[b] \in {"NotFound", "DryRun", "Deleted", "Rejected"}
DeleteCalled(b) == applied[b] \in {"Deleted", "Rejected"}

\* b is still in the repository, or it was another process that removed it
KeptByRun(b) == b \in repoBranches \/ b \in extDeleted

\* a page request of b's task failed
FetchFailed(b) == treq[b] > tpages[b]

\* what b's own answer from the service, all of it, classifies to
VerdictOf(prs) == IF ShouldDeleteBranch(StatesOf(prs)) THEN "Some" ELSE "None"

\* b's task ran to its end on its own data: no default skip, failure or panic
RanNormally(b) ==
    /\ tpc[b] = "done"
    /\ ~FetchFailed(b)
    /\ ~(maybe_default_branch # None /\ maybe_default_branch = b)

\* b's handle was collected and its result applied as lib.rs:187-198 does
AppliedAsUsual(b) ==
    /\ applied[b] # "NotCollected"
    /\ RanNormally(b) =>
          /\ tout[b] = VerdictOf(svc[b])
          /\ tout[b] = "Some" <=> Resolved(b)
          /\ applied[b] = "DryRun" => dry_run
          /\ DeleteCalled(b) => ~dry_run
          /\ applied[b] = "NotFound" <=> (tout[b] = "Some" /\ b \in extDeleted)

\* C1: for a branch that is not the default branch, should_delete_branch
\* gives true exactly when the list of requests is not empty and every state
\* is a spelling of "closed" up to the case of its letters; any other state,
\* and the empty list, give false.
C1_DeleteIffAllClosed ==
    cl_done =>
        (cl_verdict <=>
            /\ Len(cl_states) > 0
            /\ \A i \in 1..Len(cl_states) : cl_states[i] \in ClosedSpellings)

C1_Witness ==
    /\ cl_done
    /\ cl_verdict
    /\ Len(cl_states) >= 2
    /\ \E i \in 1..Len(cl_states) : cl_states[i] # ClosedLit

\* C2: when the lookup of the default branch gave a name, the local branch
\* of that name is never deleted by the run: its task returns None, the run
\* never looks it up again and never calls delete on it, whatever the
\* service answers for it and in whatever order the tasks end.
C2_DefaultBranchKept ==
    \A b \in Names :
        (maybe_default_branch # None /\ maybe_default_branch = b) =>
            /\ tout[b] # "Some"
            /\ ~Resolved(b)
            /\ b \in repoBranches

C2_Witness ==
    /\ pc = "done"
    /\ ~dry_run
    /\ maybe_default_branch = "main"
    /\ VerdictOf(svc["main"]) = "Some"
    /\ applied["main"] = "Nothing"
    /\ applied["feat"] = "Deleted"

\* C3: with dry_run set the run never calls delete: no branch is removed
\* from the repository by the run in any state of it.
C3_DryRunDeletesNothing ==
    dry_run =>
        \A b \in Names : ~DeleteCalled(b) /\ KeptByRun(b)

C3_Witness ==
    /\ dry_run
    /\ pc = "done"
    /\ \E b \in Names : applied[b] = "DryRun"

C5_FetchFailureIsolated ==
    \A b \in Names :
        FetchFailed(b) =>
            /\ result \notin FatalResults
            /\ pc = "done" => result = "Ok"
            /\ ~Resolved(b)
            /\ b \in repoBranches
            /\ pc = "done" => \A c \in Names \ {b} : AppliedAsUsual(c)

C5_Witness ==
    /\ pc = "done"
    /\ result = "Ok"
    /\ FetchFailed("main")
    /\ RanNormally("feat")
    /\ applied["feat"] = "Deleted"

\* C6: the verdict of a branch is decided by the requests whose source
\* branch is the name of the branch, and by no other request the service
\* returns.
C6_OnlyOwnRequestsDecide ==
    \A b \in Names :
        RanNormally(b) =>
            tout[b] = VerdictOf(SelectSeq(svc[b], LAMBDA pr : pr.head = b))

\* C7: every fatal condition (the repository cannot be opened, the number
\* of remotes is not 1, the URL of the remote is not UTF-8 or matches
\* neither pattern) makes the run return its error, and a run that returns
\* an error has spawned no task and has deleted no branch.
C7_FatalBeforeAnyTask ==
    /\ (remotes_len # -1 /\ remotes_len # 1) => result = "WrongRemoteCount"
    /\ (remote_url.read /\ ~remote_url.utf8) => result = "RemoteUrlNotUtf8"
    /\ (remote_url.read /\ remote_url.utf8 /\ ~ParseGitUrl(remote_url.text).ok)
          => result = "RemoteUrlNotGithub"
    /\ result \notin {"Running", "Ok"} =>
          /\ result \in FatalResults
          /\ pc = "done"
          /\ Spawned = {}
          /\ \A b \in Names : applied[b] = "NotCollected"
          /\ repoBranches = AllBranches

C7_Witness ==
    /\ result = "WrongRemoteCount"
    /\ remotes_len = 0
    /\ Spawned = {}

\* C8: when the request for any page of a branch fails, first or later, the
\* resolution of that branch fails as a whole: no further request is sent,
\* should_delete_branch is not run on the pages that did arrive, the task
\* returns None and the branch is kept.
C8_ResolutionAllOrNothing ==
    \A b \in Names :
        FetchFailed(b) =>
            /\ tpc[b] = "done"
            /\ treq[b] = tpages[b] + 1
            /\ tclassified[b] = -1
            /\ tout[b] = "None"
            /\ applied[b] \in {"NotCollected", "Nothing"}
            /\ b \in repoBranches

C8_Witness ==
    \E b \in Names :
        /\ FetchFailed(b)
        /\ tpages[b] >= 1
        /\ VerdictOf(FirstPages(b, tpages[b])) = "Some"
        /\ applied[b] = "Nothing"
        /\ pc = "done"
        /\ ~dry_run

\* C9: a task that panics or is aborted is a failure of its branch alone:
\* the branch is not deleted, the run ends with Ok, and the result of every
\* other task is still collected and applied.
C9_PanicIsolated ==
    \A b \in Names :
        tpc[b] = "panicked" =>
            /\ applied[b] \in {"NotCollected", "JoinError"}
            /\ b \in repoBranches
            /\ result \notin FatalResults
            /\ pc = "done" =>
                  /\ result = "Ok"
                  /\ applied[b] = "JoinError"
                  /\ \A c \in Names \ {b} : AppliedAsUsual(c)

C9_Witness ==
    /\ pc = "done"
    /\ result = "Ok"
    /\ tpc["feat"] = "panicked"
    /\ applied["feat"] = "JoinError"
    /\ RanNormally("main")
    /\ applied["main"] = "Deleted"

\* C10: a failure while a Delete verdict is applied to a branch (the branch
\* is gone when it is looked up again, or the repository rejects the
\* deletion) is reported for that branch, does not make the run fail, and
\* does not keep any other branch with a Delete verdict from being deleted.
C10_ApplyFailureReported ==
    \A b \in Names :
        applied[b] \in {"NotFound", "Rejected"} =>
            /\ \E rec \in log : rec[1] \in {"error", "warn"} /\ rec[3] = b
            /\ result \notin FatalResults
            /\ pc = "done" => (result = "Ok" /\ \A c \in Names \ {b} : AppliedAsUsual(c))

\* what of C10 the code does keep: the run does not fail and the other
\* branches are collected and applied; a rejected deletion is reported
ApplyFailureIsolated ==
    \A b \in Names :
        applied[b] \in {"NotFound", "Rejected"} =>
            /\ applied[b] = "Rejected" => <<"error", "failed to delete branch", b>> \in log
            /\ result \notin FatalResults
            /\ pc = "done" => (result = "Ok" /\ \A c \in Names \ {b} : AppliedAsUsual(c))

\* the lookup of the default branch is behind the run
LookupDone ==
    \/ pc \in {"branches", "spawn", "collect"}
    \/ pc = "done" /\ result \in {"Ok", "Git: list local branches"}

\* C11: a default-branch lookup that fails or gives nothing does not abort
\* the run: clean_branches goes on, no task skips its branch as the default
\* one, every task whose requests arrive classifies them by the ordinary
\* rules, and the run returns Ok.
C11_NoDefaultNoProtection ==
    (LookupDone /\ maybe_default_branch = None) =>
        /\ pc = "branches" => result = "Running"
        /\ (pc = "done" /\ result # "Git: list local branches") => result = "Ok"
        /\ \A rec \in log : rec[2] # "skipping default branch"
        /\ \A b \in Names :
              (tpc[b] = "done" /\ ~FetchFailed(b)) =>
                  /\ tclassified[b] = Len(svc[b])
                  /\ tout[b] = VerdictOf(svc[b])
        /\ pc = "done" /\ result = "Ok" => Spawned = Names

C11_Witness ==
    /\ pc = "done"
    /\ result = "Ok"
    /\ maybe_default_branch = None
    /\ ~dry_run
    /\ applied["main"] = "Deleted"
    /\ tclassified["feat"] >= 0

HasNonWord(seg) == \E i \in 1..Len(seg) : seg[i] \notin WordChars

EndsWithDotGit(url) ==
    Len(url) >= Len(DotGit) /\ SubSeq(url, Len(url) - Len(DotGit) + 1, Len(url)) = DotGit

\* C12: parse_git_url returns the owner and the repository segment, as they
\* are, for every URL of the SSH or the HTTPS shape, and returns nothing for
\* every text that does not end in the literal ".git" and for every text
\* with a character other than a letter, a digit or an underscore in its
\* owner or repository segment.
C12_ParseExactOrNothing ==
    pu_done =>
        /\ (/\ pu_in.prefix \in {SshPrefix, HttpPrefix}
            /\ IsWord(pu_in.org)
            /\ pu_in.sep = <<"/">>
            /\ IsWord(pu_in.repo)
            /\ pu_in.suffix = DotGit)
              => (pu_out.ok /\ pu_out.org = pu_in.org /\ pu_out.repo = pu_in.repo)
        /\ ~EndsWithDotGit(PuUrl(pu_in)) => ~pu_out.ok
        /\ (HasNonWord(pu_in.org) \/ HasNonWord(pu_in.repo)) => ~pu_out.ok

\* the iterator of lib.rs:128-132 has yielded the branch whose name is not
\* valid UTF-8
RawYielded ==
    \/ pc \in {"spawn", "collect"} /\ RawBranch \notin iter
    \/ pc = "done" /\ result = "Ok"

\* C13: a local branch whose name cannot be decoded as text is an isolated
\* failure of that branch: there is a record that names it, it is skipped and
\* never deleted, the run does not abort and the other branches get their
\* verdicts.
C13_UndecodableNameReported ==
    RawYielded =>
        /\ \E rec \in log : rec[3] = RawBranch
        /\ RawBranch \in repoBranches
        /\ result \in {"Running", "Ok"}
        /\ pc = "done" => Spawned = Names

\* what holds of the code for that branch: it is dropped without a task and
\* without a deletion, the run goes on and every named branch gets a task
UndecodableNameSkipped ==
    RawYielded =>
        /\ RawBranch \in repoBranches
        /\ result \in {"Running", "Ok"}
        /\ pc = "done" => Spawned = Names
        /\ \A rec \in log : rec[3] # RawBranch

\* the verdict of the second run under the first run's terms: a task that
\* returned None retains its branch, whatever made it return None
TwoWay(v) == IF v = "Delete" THEN "Delete" ELSE "Retain"

SecondRunDone == run_no = 2 /\ pc = "done" /\ result = "Ok" /\ extDeleted = {}

DeletedByInputs ==
    {b \in Names : /\ ~dry_run
                   /\ RanNormally(b)
                   /\ VerdictOf(svc[b]) = "Some"
                   /\ b \notin extDeleted
                   /\ applied[b] # "Rejected"}

\* C15: for a given repository and given answers of the service, the set of
\* branches deleted when the run returns is the same whatever the order in
\* which the tasks end and whatever the interleaving of their ends with the
\* deletions: it is a function of what the run is given.
C15_DeletedSetOrderIndependent ==
    (pc = "done" /\ result = "Ok") => Deleted = DeletedByInputs

C15_Witness ==
    /\ pc = "done"
    /\ result = "Ok"
    /\ Deleted = {"main", "feat"}
    /\ Len(svc["main"]) > PageSize
    /\ Len(svc["feat"]) <= PageSize

\* C16: when every call to the service returns and the runtime keeps
\* running what can run, a run that got past its fatal checks returns Ok, and
\* when it has returned every task it spawned has ended and its handle has
\* been collected.
C16_RunReturnsAllCollected ==
    /\ (pc \in {"spawn", "collect"}) ~> (pc = "done" /\ result = "Ok")
    /\ []((pc = "done" /\ result = "Ok") =>
             (Running = {} /\ Spawned \subseteq Collected))

C16_Witness ==
    /\ pc = "done"
    /\ result = "Ok"
    /\ Spawned = Names
    /\ Collected = Names
    /\ tpc["main"] = "panicked"
    /\ FetchFailed("feat")

\* C17: for one branch the steps come in order: its requests are resolved,
\* all pages and none failed, before it is classified; a Some comes from a
\* classification; a deletion is attempted only when the task of the branch
\* has ended and returned Some.
C17_StepsOrderedPerBranch ==
    \A b \in Names :
        /\ tclassified[b] # -1 =>
              /\ tpages[b] = NumPages(b)
              /\ ~FetchFailed(b)
              /\ tclassified[b] = Len(svc[b])
        /\ tout[b] = "Some" => tclassified[b] # -1
        /\ (tpc[b] \in {"unspawned", "start", "fetch"}) =>
              (tout[b] = "Pending" /\ applied[b] = "NotCollected")
        /\ DeleteCalled(b) => (tpc[b] = "done" /\ tout[b] = "Some")

C17_Witness ==
    /\ applied["feat"] = "Deleted"
    /\ NumPages("feat") = 2
    /\ tclassified["feat"] = Len(svc["feat"])
    /\ tpages["feat"] = 2

\* C18: the repository is changed by one sequential actor.  A step of a task
\* leaves the repository and the outcomes of the loop alone; a step that
\* removes a branch is a turn of the collecting loop, which removes that one
\* branch and settles that one handle, or is the step of another process.
C18_SingleSequentialMutator ==
    [][ /\ taskVars' # taskVars =>
              (repoBranches' = repoBranches /\ applied' = applied)
        /\ (repoBranches' # repoBranches /\ extDeleted' = extDeleted) =>
              /\ pc = "collect"
              /\ taskVars' = taskVars
              /\ \E b \in Names :
                    /\ repoBranches' = repoBranches \ {b}
                    /\ applied[b] = "NotCollected"
                    /\ applied'[b] = "Deleted"
                    /\ \A c \in TaskIds \ {b} : applied'[c] = applied[c]
      ]_vars

C18_Witness ==
    /\ applied["main"] = "Deleted"
    /\ "main" \notin repoBranches
    /\ tpc["feat"] = "done"
    /\ tout["feat"] = "Some"
    /\ applied["feat"] = "NotCollected"
    /\ "feat" \in repoBranches

\* C19: deletions stay within the snapshot taken at the start.  Every name
\* of the snapshot gets one task, spawned once, and its handle is settled
\* once, so a deletion is attempted at most once; a branch created after the
\* snapshot gets no task and is never looked up or deleted.
C19_ConfinedToSnapshot ==
    /\ [](/\ tpc[LateBranch] = "unspawned"
          /\ applied[LateBranch] = "NotCollected"
          /\ Spawned \subseteq Names
          /\ pc \in {"collect", "done"} /\ result \in {"Running", "Ok"}
                => Spawned = Names)
    /\ [][ /\ LateBranch \in repoBranches => LateBranch \in repoBranches'
           /\ \A b \in TaskIds :
                 /\ tpc[b] # "unspawned" => tpc'[b] # "unspawned"
                 /\ (tpc'[b] = "start" /\ tpc[b] # "start")
                        => (tpc[b] = "unspawned" /\ pc = "spawn")
                 /\ applied[b] # "NotCollected" => applied'[b] = applied[b]
         ]_vars

C19_Witness ==
    /\ pc = "done"
    /\ result = "Ok"
    /\ LateBranch \in repoBranches
    /\ Deleted = Names
    /\ svc[LateBranch] = LateAnswer

=============================================================================
